---- MODULE Spec2Model ----
(***************************************************************************)
(* A model of jwst/background/background_sub.py: the subarray geometry     *)
(* (ImageSubsetArray), the averaging of background exposures               *)
(* (average_background) and the WFSS background scaling                    *)
(* (subtract_wfss_bkg and its helpers).                                    *)
(*                                                                         *)
(* Arrays are numpy arrays: a shape and a value per index tuple (0-based). *)
(* Floating-point values are modelled by integers; NaN is a value of its   *)
(* own that arithmetic propagates.                                         *)
(***************************************************************************)
EXTENDS Integers, Sequences, FiniteSets, TLC

VARIABLES
    op,         \* which operation has run: "init" before any
    im_array,   \* the target's ImageSubsetArray (self)
    bkg_array,  \* a background's ImageSubsetArray (other)
    ovl,        \* <<self.overlaps(other), other.overlaps(self)>>, or <<>>
    subset,     \* what self.get_subset_array(other) returned, or <<>>
    \* average_background(input_model, bkg_list, sigma, maxiters)
    input_model,    \* the target exposure (its file)
    bkg_list,       \* the background exposure files
    sigma,          \* the clipping threshold, in standard deviations
    maxiters,       \* the most clipping iterations
    i,              \* the files accumulated so far (the loop's position)
    cdata,          \* per file, its 2D data contribution
    cerr,           \* per file, its 2D variance contribution
    accum_dq_arr,   \* the DQ collapsed over integrations (3D target)
    avg_bkg,        \* the averaged background: data, err and dq
    \* subtract_wfss_bkg and its helpers (input_model is the target here too)
    grism_obj_list, \* the objects of the source catalog, or None
    bkg_mask,       \* the mask of the background pixels
    x,              \* the values robust_mean is given
    lowlim,         \* the lower percentile of robust_mean
    highlim,        \* the upper percentile of robust_mean
    mean_value,     \* what robust_mean returned
    bkg_ref,        \* the background reference image, as opened
    sci_mean,       \* the robust mean of the target's background pixels
    bkg_mean,       \* the robust mean of the reference's background pixels
    result,         \* what subtract_wfss_bkg returned
    \* a call of one function on its own
    heap,           \* the model objects that exist, by identity
    passed,         \* the arguments of the call
    returned        \* what the call returned

geomvars == <<bkg_array, ovl, subset>>
avgvars == <<input_model, bkg_list, sigma, maxiters, i, cdata, cerr,
             accum_dq_arr, avg_bkg>>
wfssvars == <<grism_obj_list, bkg_mask, x, lowlim, highlim, mean_value,
              bkg_ref, sci_mean, bkg_mean, result>>
callvars == <<heap, passed, returned>>
vars == <<op, im_array, geomvars, avgvars, wfssvars, callvars>>

\* no function called on its own
NoCall == heap = <<>> /\ passed = <<>> /\ returned = <<>>

\* the variables of subtract_wfss_bkg before it is called
NoWfss ==
    /\ grism_obj_list = <<>> /\ bkg_mask = <<>> /\ x = <<>>
    /\ lowlim = 0 /\ highlim = 0 /\ mean_value = <<>>
    /\ bkg_ref = <<>> /\ sci_mean = <<>> /\ bkg_mean = <<>> /\ result = <<>>

(***************************************************************************)
(* Bounds of the model.                                                    *)
(***************************************************************************)
MaxX == 3       \* detector columns 0..MaxX-1
MaxY == 2       \* detector rows 0..MaxY-1
MaxInts == 2    \* integrations of a 3D exposure
MaxFiles == 3   \* background files of one average_background call

(***************************************************************************)
(* numpy                                                                   *)
(***************************************************************************)
NaN == -999999

Min(a, b) == IF a < b THEN a ELSE b
Max(a, b) == IF a > b THEN a ELSE b

isnan(v) == v = NaN

\* v * v for floats: NaN propagates
Square(v) == IF isnan(v) THEN NaN ELSE v * v

\* a | b on unsigned integers
RECURSIVE bitwise_or(_, _)
bitwise_or(a, b) ==
    IF a = 0 THEN b
    ELSE IF b = 0 THEN a
    ELSE (IF a % 2 = 1 \/ b % 2 = 1 THEN 1 ELSE 0)
         + 2 * bitwise_or(a \div 2, b \div 2)

\* the index tuples of an array of this shape
Indices(shape) ==
    IF Len(shape) = 2
    THEN (0 .. shape[1] - 1) \X (0 .. shape[2] - 1)
    ELSE (0 .. shape[1] - 1) \X (0 .. shape[2] - 1) \X (0 .. shape[3] - 1)

ndim(a) == Len(a.shape)

\* np.full(shape, v), np.zeros(shape)
np_full(shape, v) == [shape |-> shape, at |-> [p \in Indices(shape) |-> v]]

\* an exception instead of a value
Raise(what) == [raised |-> what]
IsRaised(r) == "raised" \in DOMAIN r

\* slice(start, stop); slice(None, None); slice(None, stop)
slice(start, stop) == [none |-> FALSE, start |-> start, stop |-> stop]
slice_None == [none |-> TRUE, start |-> 0, stop |-> 0]
slice_to(stop) == slice(0, stop)

\* A slice bound on an axis of length n: a negative bound counts from the
\* end, and every bound is clamped to 0..n.
SliceBound(k, n) == IF k < 0 THEN Max(k + n, 0) ELSE Min(k, n)
SliceLo(s, n) == IF s.none THEN 0 ELSE SliceBound(s.start, n)
SliceHi(s, n) == IF s.none THEN n ELSE SliceBound(s.stop, n)
SliceLen(s, n) == Max(SliceHi(s, n) - SliceLo(s, n), 0)

\* a[idx] for a tuple idx of slices: IndexError when there are more slices
\* than axes; axes without a slice are taken whole.
getitem(a, idx) ==
    IF Len(idx) > ndim(a) THEN Raise("IndexError")
    ELSE LET n == ndim(a)
             full == [k \in 1 .. n |-> IF k <= Len(idx) THEN idx[k] ELSE slice_None]
             lo == [k \in 1 .. n |-> SliceLo(full[k], a.shape[k])]
             shp == [k \in 1 .. n |-> SliceLen(full[k], a.shape[k])]
         IN  [shape |-> shp,
              at |-> [p \in Indices(shp) |->
                        a.at[[k \in 1 .. n |-> p[k] + lo[k]]]]]

\* Whether a value of shape vs can be assigned to a region of shape rs:
\* leading axes of length 1 beyond the region's are dropped, the rest is
\* aligned at the end, and each axis is the region's or of length 1.
Assignable(vs, rs) ==
    LET nv == Len(vs)
        nr == Len(rs)
    IN  /\ \A k \in 1 .. nv - nr : vs[k] = 1
        /\ \A k \in 1 .. Min(nv, nr) :
              vs[nv + 1 - k] = rs[nr + 1 - k] \/ vs[nv + 1 - k] = 1

\* The shape of the region dst[..., :cut.shape[-2], :cut.shape[-1]].
CornerShape(dst, cut) ==
    [k \in 1 .. ndim(dst) |->
        IF k = ndim(dst)
        THEN SliceLen(slice_to(cut.shape[ndim(cut)]), dst.shape[k])
        ELSE IF k = ndim(dst) - 1
             THEN SliceLen(slice_to(cut.shape[ndim(cut) - 1]), dst.shape[k])
             ELSE dst.shape[k]]

\* dst with val broadcast into its corner region of shape rs
\* (val assignable to it): region index p reads val at the index that
\* drops val's extra leading axes and stays at 0 on its axes of length 1.
Broadcast(dst, val, rs) ==
    [shape |-> dst.shape,
     at |-> [p \in Indices(dst.shape) |->
               IF \A k \in 1 .. ndim(dst) : p[k] < rs[k]
               THEN val.at[[k \in 1 .. ndim(val) |->
                              IF k <= ndim(val) - ndim(dst) THEN 0
                              ELSE IF val.shape[k] = 1 THEN 0
                                   ELSE p[k - (ndim(val) - ndim(dst))]]]
               ELSE dst.at[p]]]

\* dst[..., :cut.shape[-2], :cut.shape[-1]] = val
\* where cut gives the extent and val the values (of cut's shape in every
\* call): the array after the assignment, or ValueError when val does not
\* broadcast to the region.
setitem_corner(dst, cut, val) ==
    IF ~Assignable(val.shape, CornerShape(dst, cut)) THEN Raise("ValueError")
    ELSE Broadcast(dst, val, CornerShape(dst, cut))

(***************************************************************************)
(* Exposures (data models)                                                 *)
(***************************************************************************)
None == -888888

\* The pixel values of the modelled exposures: every pixel of an exposure
\* differs from every other in data, and err and dq follow other patterns.
PixelNo(shape, p) ==
    IF Len(shape) = 2 THEN p[1] * shape[2] + p[2]
    ELSE (p[1] * shape[2] + p[2]) * shape[3] + p[3]

\* an exposure with subarray metadata (1-indexed) and data of this shape
Exposure(xstart, ystart, xsize, ysize, shape, instrument) ==
    [xstart |-> xstart, ystart |-> ystart, xsize |-> xsize, ysize |-> ysize,
     instrument |-> instrument,
     data |-> [shape |-> shape,
               at |-> [p \in Indices(shape) |-> 10 + PixelNo(shape, p)]],
     err |-> [shape |-> shape,
              at |-> [p \in Indices(shape) |-> 1 + (PixelNo(shape, p) % 3)]],
     dq |-> [shape |-> shape,
             at |-> [p \in Indices(shape) |-> (PixelNo(shape, p) + 1) % 4]]]

(***************************************************************************)
(* class ImageSubsetArray                                                  *)
(***************************************************************************)
\* name.upper(), for the instrument names of the model
upper(name) ==
    CASE name = "miri" -> "MIRI"
      [] name = "nircam" -> "NIRCAM"
      [] OTHER -> name

\* a plausible slip: the rows and columns of the MIRI full frame exchanged
FullFrame_transposed(instrument, shape) ==
    IF upper(instrument) = "MIRI"
    THEN shape[Len(shape)] = 1024 /\ shape[Len(shape) - 1] = 1032
    ELSE shape[Len(shape)] = 2048 /\ shape[Len(shape) - 1] = 2048

\* lines 36-50: whether data of this shape are the instrument's full frame
FullFrame(instrument, shape) ==
    IF upper(instrument) = "MIRI"
    THEN shape[Len(shape)] = 1032 /\ shape[Len(shape) - 1] = 1024
    ELSE shape[Len(shape)] = 2048 /\ shape[Len(shape) - 1] = 2048

ImageSubsetArray(model) ==
    LET shape == model.data.shape
        n == Len(shape)
        missing == \/ model.xstart = None \/ model.ystart = None
                   \/ model.xsize = None \/ model.ysize = None
        xstart == IF missing THEN 1 ELSE model.xstart
        ystart == IF missing THEN 1 ELSE model.ystart
        xsize == IF ~missing THEN model.xsize
                 ELSE IF upper(model.instrument) = "MIRI" THEN 1032 ELSE 2048
        ysize == IF ~missing THEN model.ysize
                 ELSE IF upper(model.instrument) = "MIRI" THEN 1024 ELSE 2048
    IN  IF missing /\ ~FullFrame(model.instrument, shape)
        THEN Raise("ValueError")
        ELSE [jmin |-> ystart - 1,
              jmax |-> ysize + (ystart - 1),
              imin |-> xstart - 1,
              imax |-> xsize + (xstart - 1),
              im_dim |-> n,
              data |-> model.data,
              err |-> model.err,
              dq |-> model.dq]

\* a plausible slip: the second test made non-strict on one side only
overlaps_asymmetric(self, other) ==
    ~ (\/ self.imax <= other.imin
       \/ other.imax < self.imin
       \/ self.jmax <= other.jmin
       \/ other.jmax < self.jmin)

overlaps(self, other) ==
    ~ (\/ self.imax <= other.imin
       \/ other.imax <= self.imin
       \/ self.jmax <= other.jmin
       \/ other.jmax <= self.jmin)

\* The intersection rectangle of get_subset_array: an empty intersection
\* is collapsed to zero width.
Intersection(self, other) ==
    LET imin == Max(self.imin, other.imin)
        imax == Min(self.imax, other.imax)
        jmin == Max(self.jmin, other.jmin)
        jmax == Min(self.jmax, other.jmax)
    IN  [imin |-> imin,
         imax |-> IF imax < imin THEN imin ELSE imax,
         jmin |-> jmin,
         jmax |-> IF jmax < jmin THEN jmin ELSE jmax]

\* a plausible slip: the number of integrations taken from self
data_shape_of_self(self, other) == self.data.shape

\* The shape of the output arrays: the x/y shape of self and, with a third
\* dimension, other's first axis.
data_shape(self, other) ==
    IF self.im_dim = 3
    THEN [self.data.shape EXCEPT ![1] = other.data.shape[1]]
    ELSE self.data.shape

\* The slices that cut the intersection r out of other's arrays.
cutout_idx(self, other, r) ==
    IF self.im_dim = 2
    THEN <<slice(r.jmin - other.jmin, r.jmax - other.jmin),
           slice(r.imin - other.imin, r.imax - other.imin)>>
    ELSE <<slice_None,
           slice(r.jmin - other.jmin, r.jmax - other.jmin),
           slice(r.imin - other.imin, r.imax - other.imin)>>

\* Line 127: the three arrays, unless an assignment raised.
Returned(data_overlap, err_overlap, dq_overlap) ==
    IF IsRaised(data_overlap) THEN data_overlap
    ELSE [data |-> data_overlap, err |-> err_overlap, dq |-> dq_overlap]

\* Lines 103-105 and 123-125: the cutouts written to the corner of the
\* output arrays.
PutCutouts(shape, data_cutout, err_cutout, dq_cutout) ==
    IF IsRaised(data_cutout) THEN data_cutout
    ELSE Returned(setitem_corner(np_full(shape, NaN), data_cutout, data_cutout),
                  setitem_corner(np_full(shape, NaN), data_cutout, err_cutout),
                  setitem_corner(np_full(shape, 0), data_cutout, dq_cutout))

\* Lines 118-120: the cutouts pulled from other's arrays.
PullCutouts(shape, other, idx) ==
    PutCutouts(shape, getitem(other.data, idx), getitem(other.err, idx),
               getitem(other.dq, idx))

get_subset_array(self, other) ==
    PullCutouts(data_shape(self, other), other,
                cutout_idx(self, other, Intersection(self, other)))

(***************************************************************************)
(* The geometry specification: two exposures anywhere on the detector,     *)
(* each 2D or 3D, and one call of overlaps or get_subset_array.            *)
(***************************************************************************)
\* the shapes an exposure of ysize rows and xsize columns can have
Shapes(ysize, xsize) ==
    {<<ysize, xsize>>} \cup {<<n, ysize, xsize>> : n \in 1 .. MaxInts}

\* the exposures with consistent subarray metadata on the detector
Exposures ==
    UNION {
      {Exposure(xs, ys, xz, yz, shape, "NIRCAM") : shape \in Shapes(yz, xz)} :
        <<xs, ys, xz, yz>> \in
          {t \in (1 .. MaxX) \X (1 .. MaxY) \X (0 .. MaxX) \X (0 .. MaxY) :
              t[1] - 1 + t[3] <= MaxX /\ t[2] - 1 + t[4] <= MaxY}}

GeomInit ==
    /\ op = "init"
    /\ NoCall
    /\ im_array \in {ImageSubsetArray(m) : m \in Exposures}
    /\ bkg_array \in {ImageSubsetArray(m) : m \in Exposures}
    /\ ovl = <<>>
    /\ subset = <<>>
    /\ input_model = <<>> /\ bkg_list = <<>> /\ sigma = 0 /\ maxiters = 0
    /\ i = 0 /\ cdata = <<>> /\ cerr = <<>> /\ accum_dq_arr = <<>>
    /\ avg_bkg = <<>>
    /\ NoWfss

CallOverlaps ==
    /\ op = "init"
    /\ op' = "overlaps"
    /\ ovl' = <<overlaps(im_array, bkg_array), overlaps(bkg_array, im_array)>>
    /\ UNCHANGED <<im_array, bkg_array, subset, avgvars, wfssvars, callvars>>

CallGetSubsetArray ==
    /\ op = "init"
    /\ op' = "get_subset_array"
    /\ subset' = get_subset_array(im_array, bkg_array)
    /\ UNCHANGED <<im_array, bkg_array, ovl, avgvars, wfssvars, callvars>>

GeomNext == CallOverlaps \/ CallGetSubsetArray

GeomSpec == GeomInit /\ [][GeomNext]_vars

(***************************************************************************)
(* get_subset_array when the subarray metadata of one of the exposures     *)
(* disagree with the shape of its arrays, which the construction does not  *)
(* check.                                                                  *)
(***************************************************************************)
\* exposures of MaxY declared rows from row 1 whose arrays have other
\* numbers of rows or columns than the metadata declare
MismatchedExposures ==
    UNION {
      {Exposure(xs, 1, xz, MaxY, shape, "NIRCAM") :
          shape \in UNION {Shapes(rows, columns) :
                             <<rows, columns>> \in
                               ((1 .. MaxY) \X (1 .. MaxX)) \ {<<MaxY, xz>>}}} :
        <<xs, xz>> \in {t \in (1 .. MaxX) \X (1 .. MaxX) :
                          t[1] - 1 + t[2] <= MaxX}}

MismatchInit ==
    /\ op = "init"
    /\ NoCall
    /\ \/ /\ im_array \in {ImageSubsetArray(m) : m \in Exposures}
          /\ bkg_array \in {ImageSubsetArray(m) : m \in MismatchedExposures}
       \/ /\ im_array \in {ImageSubsetArray(m) : m \in MismatchedExposures}
          /\ bkg_array \in {ImageSubsetArray(m) : m \in Exposures}
    /\ ovl = <<>>
    /\ subset = <<>>
    /\ input_model = <<>> /\ bkg_list = <<>> /\ sigma = 0 /\ maxiters = 0
    /\ i = 0 /\ cdata = <<>> /\ cerr = <<>> /\ accum_dq_arr = <<>>
    /\ avg_bkg = <<>>
    /\ NoWfss

MismatchSpec == MismatchInit /\ [][CallGetSubsetArray]_vars

(***************************************************************************)
(* astropy.stats.sigma_clip(data, sigma, maxiters, axis=0), with its       *)
(* defaults: the center is the median and the spread the standard          *)
(* deviation of the values not yet rejected; a value is rejected when it   *)
(* is below center - sigma * std or above center + sigma * std; NaNs are   *)
(* rejected from the start.  v holds the values along the axis at one      *)
(* pixel, and the result is the set of positions left unmasked.            *)
(***************************************************************************)
\* a + b for floats: NaN propagates
Add(a, b) == IF isnan(a) \/ isnan(b) THEN NaN ELSE a + b

RECURSIVE SumOver(_, _)
SumOver(v, K) ==
    IF K = {} THEN 0
    ELSE LET k == CHOOSE a \in K : TRUE
         IN  Add(v[k], SumOver(v, K \ {k}))

\* the values of v at the positions K, in ascending order
RECURSIVE Ascending(_, _)
Ascending(v, K) ==
    IF K = {} THEN <<>>
    ELSE LET k == CHOOSE a \in K : \A b \in K : v[a] <= v[b]
         IN  <<v[k]>> \o Ascending(v, K \ {k})

\* twice the median of the ascending sequence s (not empty)
Median2(s) ==
    IF Len(s) % 2 = 1 THEN 2 * s[(Len(s) + 1) \div 2]
    ELSE s[Len(s) \div 2] + s[Len(s) \div 2 + 1]

\* The positions of K outside center +- sig * std.  With n values of sum S
\* and sum of squares Q, std^2 = (n*Q - S*S) / n^2, so |v - median| >
\* sig * std is (2v - m2)^2 * n^2 > 4 * sig^2 * (n*Q - S*S), m2 being
\* twice the median.
Outside(v, K, sig, n, S, Q, m2) ==
    {k \in K : (2 * v[k] - m2) * (2 * v[k] - m2) * n * n
                  > 4 * sig * sig * (n * Q - S * S)}

Rejected(v, K, sig) ==
    Outside(v, K, sig, Cardinality(K), SumOver(v, K),
            SumOver([k \in DOMAIN v |-> Square(v[k])], K),
            Median2(Ascending(v, K)))

\* the iterations: until nothing more is rejected, or maxiters are done
RECURSIVE ClipLoop(_, _, _, _)
ClipRest(v, K, R, sig, iters) ==
    IF R = {} THEN K ELSE ClipLoop(v, K \ R, sig, iters - 1)

ClipLoop(v, K, sig, iters) ==
    IF iters = 0 \/ K = {} THEN K
    ELSE ClipRest(v, K, Rejected(v, K, sig), sig, iters)

sigma_clip(v, sig, iters) ==
    ClipLoop(v, {k \in DOMAIN v : ~isnan(v[k])}, sig, iters)

\* The value numpy.ma leaves under the mask of a mean, a sum, a square
\* root or a quotient whose every input is masked: the sum of the inputs
\* filled with 0, carried through the later operations.
MaskedFill == 0

\* a / n for the values of the model, which divide exactly
Quotient(a, n) == IF a % n = 0 THEN a \div n ELSE Raise("inexact")

\* masked.mean(axis=0) at one pixel, as a plain array element
masked_mean(v, K) ==
    IF K = {} THEN MaskedFill ELSE Quotient(SumOver(v, K), Cardinality(K))

\* the values of a 3D array along its first axis at pixel p of the frame
AlongAxis0(a, p) == [k \in 1 .. a.shape[1] |-> a.at[<<k - 1, p[1], p[2]>>]]

\* the values of a stack of 2D arrays at pixel p
AlongFiles(stack, p) == [k \in 1 .. Len(stack) |-> stack[k].at[p]]

\* The exposure files of the averaging runs: one detector row, the column
\* range [imin, imax) of cols, 2D or with MaxInts integrations, and the
\* same data, err and dq in every pixel (dq differs between the
\* integrations of a 3D exposure).
AvgColumns == {<<0, 1>>, <<0, 2>>, <<1, 2>>}
AvgValues == {[d |-> 12, e |-> 6, dq |-> 1], [d |-> 48, e |-> 12, dq |-> 2]}

\* The runs: the target's and the files' dimensionality, sigma and
\* maxiters.  (sigma 3, maxiters 5 are the documented values; with sigma 1
\* three files are enough for one of them to be clipped.)
AvgRuns ==
    {[tdim |-> 2, fdim |-> 2, sigma |-> 1, maxiters |-> 5],
     [tdim |-> 2, fdim |-> 2, sigma |-> 3, maxiters |-> 5],
     [tdim |-> 3, fdim |-> 3, sigma |-> 1, maxiters |-> 5],
     [tdim |-> 3, fdim |-> 3, sigma |-> 3, maxiters |-> 5],
     [tdim |-> 2, fdim |-> 3, sigma |-> 3, maxiters |-> 5],
     [tdim |-> 3, fdim |-> 2, sigma |-> 3, maxiters |-> 5]}
AvgTargetColumns == {<<1, 2>>, <<0, 2>>}

AvgFiles(dim) ==
    {[cols |-> cols, dim |-> dim, val |-> val] :
        cols \in AvgColumns, val \in AvgValues}

\* the targets: their pixel values play no part in the average
AvgTargets(dim) ==
    {[cols |-> cols, dim |-> dim, val |-> [d |-> 0, e |-> 0, dq |-> 0]] :
        cols \in AvgTargetColumns}

\* datamodels.open(file): the exposure a file holds
datamodels_open(file) ==
    LET shape == IF file.dim = 2 THEN <<1, file.cols[2] - file.cols[1]>>
                 ELSE <<MaxInts, 1, file.cols[2] - file.cols[1]>>
    IN  [xstart |-> file.cols[1] + 1, ystart |-> 1,
         xsize |-> file.cols[2] - file.cols[1], ysize |-> 1,
         instrument |-> "NIRCAM",
         data |-> np_full(shape, file.val.d),
         err |-> np_full(shape, file.val.e),
         dq |-> [shape |-> shape,
                 at |-> [p \in Indices(shape) |->
                           IF file.dim = 2 THEN file.val.dq
                           ELSE file.val.dq * (2 ^ p[1])]]]

(***************************************************************************)
(* average_background                                                      *)
(***************************************************************************)
bkg_dim == Len(datamodels_open(input_model).data.shape)
image_shape == SubSeq(datamodels_open(input_model).data.shape,
                      bkg_dim - 1, bkg_dim)
num_bkg == Len(bkg_list)

\* elementwise operations on arrays of one shape
ArraySquare(a) == [shape |-> a.shape, at |-> [p \in DOMAIN a.at |-> Square(a.at[p])]]
ArrayOr(a, b) ==
    [shape |-> a.shape, at |-> [p \in DOMAIN a.at |-> bitwise_or(a.at[p], b.at[p])]]

\* acc OR-ed with the values of v, one integration after the other
RECURSIVE OrOver(_, _)
OrOver(v, acc) ==
    IF v = <<>> THEN acc ELSE OrOver(Tail(v), bitwise_or(Head(v), acc))

\* the bitwise OR of a 3D dq array over its integrations, into acc
CollapseDq(dq, acc) ==
    [shape |-> acc.shape,
     at |-> [p \in DOMAIN acc.at |-> OrOver(AlongAxis0(dq, p), acc.at[p])]]

\* sigma_clip(v, ...).mean() along the integrations at one pixel
ClippedMean(v, sig, iters) == masked_mean(v, sigma_clip(v, sig, iters))

\* the file's data and variance, clipped and averaged over its integrations
IntegrationMean(a) ==
    [shape |-> image_shape,
     at |-> [p \in Indices(image_shape) |->
               ClippedMean(AlongAxis0(a, p), sigma, maxiters)]]

\* a plausible slip: a file that does not overlap leaves zeros in its slot
NoOverlapSlot_zeros(shape) == np_full(shape, 0)

\* np.ones(image_shape) * np.nan
NoOverlapSlot(shape) == np_full(shape, NaN)

\* The loop's body for a file that does not overlap the target.
AccumulateNoOverlap ==
    /\ op = "avg_loop" /\ i < num_bkg
    /\ bkg_array' = ImageSubsetArray(datamodels_open(bkg_list[i + 1]))
    /\ ~overlaps(bkg_array', im_array)
    /\ cdata' = [cdata EXCEPT ![i + 1] = NoOverlapSlot(image_shape)]
    /\ cerr' = [cerr EXCEPT ![i + 1] = NoOverlapSlot(image_shape)]
    /\ i' = i + 1
    /\ UNCHANGED <<op, im_array, ovl, subset, input_model, bkg_list, sigma,
                   maxiters, accum_dq_arr, avg_bkg, wfssvars, callvars>>

\* The loop's body for an overlapping file and a 2D target.
Accumulate2D ==
    /\ op = "avg_loop" /\ i < num_bkg /\ bkg_dim = 2
    /\ bkg_array' = ImageSubsetArray(datamodels_open(bkg_list[i + 1]))
    /\ overlaps(bkg_array', im_array)
    /\ subset' = get_subset_array(im_array, bkg_array')
    /\ ~IsRaised(subset')
    /\ cdata' = [cdata EXCEPT ![i + 1] = subset'.data]
    /\ cerr' = [cerr EXCEPT ![i + 1] = ArraySquare(subset'.err)]
    /\ avg_bkg' = [avg_bkg EXCEPT !.dq = ArrayOr(avg_bkg.dq, subset'.dq)]
    /\ i' = i + 1
    /\ UNCHANGED <<op, im_array, ovl, input_model, bkg_list, sigma, maxiters,
                   accum_dq_arr, wfssvars, callvars>>

\* The loop's body for an overlapping file and a 3D target.
Accumulate3D ==
    /\ op = "avg_loop" /\ i < num_bkg /\ bkg_dim = 3
    /\ bkg_array' = ImageSubsetArray(datamodels_open(bkg_list[i + 1]))
    /\ overlaps(bkg_array', im_array)
    /\ subset' = get_subset_array(im_array, bkg_array')
    /\ ~IsRaised(subset')
    /\ cdata' = [cdata EXCEPT ![i + 1] = IntegrationMean(subset'.data)]
    /\ cerr' = [cerr EXCEPT ![i + 1] = IntegrationMean(ArraySquare(subset'.err))]
    /\ accum_dq_arr' = CollapseDq(subset'.dq, accum_dq_arr)
    /\ avg_bkg' = [avg_bkg EXCEPT !.dq = ArrayOr(avg_bkg.dq, accum_dq_arr')]
    /\ i' = i + 1
    /\ UNCHANGED <<op, im_array, ovl, input_model, bkg_list, sigma, maxiters,
                 wfssvars, callvars>>

\* get_subset_array raises, and average_background with it.
AccumulateRaises ==
    /\ op = "avg_loop" /\ i < num_bkg
    /\ bkg_array' = ImageSubsetArray(datamodels_open(bkg_list[i + 1]))
    /\ overlaps(bkg_array', im_array)
    /\ subset' = get_subset_array(im_array, bkg_array')
    /\ IsRaised(subset')
    /\ op' = "avg_raised"
    /\ UNCHANGED <<im_array, ovl, avgvars, wfssvars, callvars>>

\* num_bkg - merr.mask.sum(axis=0), at one pixel
ErrDenominator(n_files, n_masked) == n_files - n_masked

\* One pixel of the averaged background, from the values vd (data) and ve
\* (variance) of the files there and the positions keep the clip left
\* unmasked: the mean of the unclipped data as a fraction num / den, and
\* the error sqrt(var) / over.
PixelAverage(vd, ve, keep) ==
    IF keep = {}
    THEN [data |-> [num |-> MaskedFill, den |-> 1],
          err |-> [var |-> MaskedFill, over |-> 1]]
    ELSE [data |-> [num |-> SumOver(vd, keep), den |-> Cardinality(keep)],
          err |-> [var |-> SumOver(ve, keep),
                   over |-> ErrDenominator(Len(vd), Len(vd) - Cardinality(keep))]]

\* Lines 261-270, per pixel.
Pixels(cd, ce, sig, iters) ==
    [p \in Indices(cd[1].shape) |->
        PixelAverage(AlongFiles(cd, p), AlongFiles(ce, p),
                     sigma_clip(AlongFiles(cd, p), sig, iters))]

Averaged(shape, pixel) ==
    [data |-> [shape |-> shape, at |-> [p \in Indices(shape) |-> pixel[p].data]],
     err |-> [shape |-> shape, at |-> [p \in Indices(shape) |-> pixel[p].err]],
     dq |-> np_full(shape, 0)]

\* The averaged background of the contributions cd (data) and ce
\* (variance).
Combine(cd, ce, sig, iters) ==
    Averaged(cd[1].shape, Pixels(cd, ce, sig, iters))

\* After the loop: clip across the files and average.
ClipAndAverage ==
    /\ op = "avg_loop" /\ i = num_bkg
    /\ op' = "avg_done"
    /\ avg_bkg' = [Combine(cdata, cerr, sigma, maxiters) EXCEPT !.dq = avg_bkg.dq]
    /\ UNCHANGED <<im_array, geomvars, input_model, bkg_list, sigma, maxiters,
                   i, cdata, cerr, accum_dq_arr, wfssvars, callvars>>

(***************************************************************************)
(* average_background as a function of the file list, for the target,      *)
(* sigma and maxiters of the state: the loop over the files, then the      *)
(* clip and the average.  lp is the loop's state: cdata and cerr (the      *)
(* slots filled so far), accum_dq_arr and dq (avg_bkg.dq).                 *)
(***************************************************************************)
Contribution2D(lp, got) ==
    [cdata |-> Append(lp.cdata, got.data),
     cerr |-> Append(lp.cerr, ArraySquare(got.err)),
     accum_dq_arr |-> lp.accum_dq_arr,
     dq |-> ArrayOr(lp.dq, got.dq)]

Contribution3D(lp, got, accum) ==
    [cdata |-> Append(lp.cdata, IntegrationMean(got.data)),
     cerr |-> Append(lp.cerr, IntegrationMean(ArraySquare(got.err))),
     accum_dq_arr |-> accum,
     dq |-> ArrayOr(lp.dq, accum)]

LoopBody(lp, bkg, got) ==
    IF ~overlaps(bkg, im_array)
    THEN [lp EXCEPT !.cdata = Append(@, NoOverlapSlot(image_shape)),
                    !.cerr = Append(@, NoOverlapSlot(image_shape))]
    ELSE IF IsRaised(got) THEN got
         ELSE IF bkg_dim = 2 THEN Contribution2D(lp, got)
              ELSE Contribution3D(lp, got, CollapseDq(got.dq, lp.accum_dq_arr))

LoopBodyFor(lp, bkg) == LoopBody(lp, bkg, get_subset_array(im_array, bkg))

RECURSIVE Loop(_, _)
Loop(lp, files) ==
    IF IsRaised(lp) \/ files = <<>> THEN lp
    ELSE Loop(LoopBodyFor(lp, ImageSubsetArray(datamodels_open(Head(files)))),
              Tail(files))

AfterLoop(lp) ==
    IF IsRaised(lp) THEN lp
    ELSE [Combine(lp.cdata, lp.cerr, sigma, maxiters) EXCEPT !.dq = lp.dq]

average_background(files) ==
    AfterLoop(Loop([cdata |-> <<>>, cerr |-> <<>>,
                    accum_dq_arr |-> np_full(image_shape, 0),
                    dq |-> np_full(image_shape, 0)], files))

\* The state of average_background when its loop starts.
Start(target, files, sig, iters) ==
    LET shape == IF target.dim = 2 THEN datamodels_open(target).data.shape
                 ELSE Tail(datamodels_open(target).data.shape)
    IN  /\ op = "avg_loop"
        /\ input_model = target
        /\ bkg_list = files
        /\ sigma = sig
        /\ maxiters = iters
        /\ im_array = ImageSubsetArray(datamodels_open(target))
        /\ i = 0
        /\ cdata = [k \in 1 .. Len(files) |-> np_full(shape, 0)]
        /\ cerr = [k \in 1 .. Len(files) |-> np_full(shape, 0)]
        /\ accum_dq_arr = np_full(shape, 0)
        /\ avg_bkg = [data |-> np_full(shape, 0), err |-> np_full(shape, 0),
                      dq |-> np_full(shape, 0)]

AvgInit ==
    /\ bkg_array = <<>> /\ ovl = <<>> /\ subset = <<>>
    /\ NoCall
    /\ NoWfss
    /\ \E run \in AvgRuns, n \in 1 .. MaxFiles :
       \E target \in AvgTargets(run.tdim), files \in [1 .. n -> AvgFiles(run.fdim)] :
            Start(target, files, run.sigma, run.maxiters)

AvgNext ==
    \/ AccumulateNoOverlap
    \/ Accumulate2D
    \/ Accumulate3D
    \/ AccumulateRaises
    \/ ClipAndAverage

AvgSpec == AvgInit /\ [][AvgNext]_vars

(***************************************************************************)
(* mask_from_source_cat                                                    *)
(*                                                                         *)
(* The coordinates of a bounding box are decimal numbers with one digit    *)
(* after the point, held in tenths: 10.2 is 102.                           *)
(***************************************************************************)
math_floor(t) == t \div 10
math_ceil(t) == -((-t) \div 10)

\* ((ymin, ymax), (xmin, xmax)), in tenths
BoundingBox(ymin, ymax, xmin, xmax) == <<<<ymin, ymax>>, <<xmin, xmax>>>>

\* a plausible slip: the upper bounds not converted to slice limits
BoxSlices_no_limit(shape, box) ==
    <<slice(Max(math_floor(box[1][1]), 0),
            Min(math_ceil(box[1][2]), shape[Len(shape) - 1])),
      slice(Max(math_floor(box[2][1]), 0),
            Min(math_ceil(box[2][2]), shape[Len(shape)]))>>

\* The slices ymin:ymax, xmin:xmax of one bounding box: floor and ceiling,
\* the upper bounds turned into slice limits, and all clamped to the frame.
BoxSlices(shape, box) ==
    <<slice(Max(math_floor(box[1][1]), 0),
            Min(math_ceil(box[1][2]) + 1, shape[Len(shape) - 1])),
      slice(Max(math_floor(box[2][1]), 0),
            Min(math_ceil(box[2][2]) + 1, shape[Len(shape)]))>>

\* whether index k of an axis of length n is in the slice s
InSlice(s, k, n) == SliceLo(s, n) <= k /\ k < SliceHi(s, n)

\* a[..., idx[1], idx[2]] = v
setitem_box(a, idx, v) ==
    [shape |-> a.shape,
     at |-> [p \in Indices(a.shape) |->
               IF /\ InSlice(idx[1], p[Len(p) - 1], a.shape[Len(p) - 1])
                  /\ InSlice(idx[2], p[Len(p)], a.shape[Len(p)])
               THEN v ELSE a.at[p]]]

\* the loop over the orders of one object
RECURSIVE MaskOrders(_, _)
MaskOrders(mask, order_bounding) ==
    IF order_bounding = <<>> THEN mask
    ELSE MaskOrders(setitem_box(mask, BoxSlices(mask.shape, Head(order_bounding)),
                                FALSE),
                    Tail(order_bounding))

\* the loop over the objects
RECURSIVE MaskObjects(_, _)
MaskObjects(mask, objs) ==
    IF objs = <<>> THEN mask
    ELSE MaskObjects(MaskOrders(mask, Head(objs).order_bounding), Tail(objs))

\* objs is what create_grism_bbox returns for the target
mask_from_source_cat(shape, objs) == MaskObjects(np_full(shape, TRUE), objs)

\* The frames and catalogs mask_from_source_cat is called with: a small
\* frame with boxes inside, across and outside it, and the 50 x 50 frame.
SmallFrame == <<MaxY + 1, MaxX + 1>>
LargeFrame == <<50, 50>>

\* (min, max) pairs in tenths on an axis of the small frame
SmallSpans ==
    {<<0, 0>>, <<2, 17>>, <<10, 20>>, <<15, 28>>, <<-15, 5>>, <<-30, -12>>,
     <<-30, -20>>, <<-5, 100>>, <<10 * (MaxX + 2), 10 * (MaxX + 4)>>}

SmallBoxes ==
    {BoundingBox(ys[1], ys[2], xs[1], xs[2]) :
        ys \in {<<0, 0>>, <<2, 17>>, <<-30, -12>>, <<-30, -20>>},
        xs \in SmallSpans}

LargeBoxes ==
    {BoundingBox(102, 207, 50, 150), BoundingBox(0, 490, 0, 490),
     BoundingBox(-20, 30, 470, 520)}

GrismObject(boxes) == [order_bounding |-> boxes]

\* no object; one object of one or two orders; two objects of one order
Catalogs(boxes) ==
    {<<>>}
      \cup {<<GrismObject(<<b>>)>> : b \in boxes}
      \cup {<<GrismObject(<<b, c>>)>> : b \in boxes, c \in boxes}
      \cup {<<GrismObject(<<b>>), GrismObject(<<c>>)>> : b \in boxes, c \in boxes}

\* a target of this shape: data 0 and dq 0 in every pixel
BlankTarget(shape) == [data |-> np_full(shape, 0), dq |-> np_full(shape, 0)]

MaskInit ==
    /\ op = "mask_init"
    /\ NoCall
    /\ im_array = <<>> /\ bkg_array = <<>> /\ ovl = <<>> /\ subset = <<>>
    /\ bkg_list = <<>> /\ sigma = 0 /\ maxiters = 0
    /\ i = 0 /\ cdata = <<>> /\ cerr = <<>> /\ accum_dq_arr = <<>>
    /\ avg_bkg = <<>>
    /\ bkg_mask = <<>> /\ x = <<>>
    /\ lowlim = 0 /\ highlim = 0 /\ mean_value = <<>>
    /\ bkg_ref = <<>> /\ sci_mean = <<>> /\ bkg_mean = <<>> /\ result = <<>>
    /\ \/ /\ input_model = BlankTarget(SmallFrame)
          /\ grism_obj_list \in Catalogs(SmallBoxes)
       \/ /\ input_model = BlankTarget(LargeFrame)
          /\ grism_obj_list \in {<<GrismObject(<<b>>)>> : b \in LargeBoxes}

CallMaskFromSourceCat ==
    /\ op = "mask_init"
    /\ op' = "mask_from_source_cat"
    /\ bkg_mask' = mask_from_source_cat(input_model.data.shape, grism_obj_list)
    /\ UNCHANGED <<im_array, geomvars, avgvars, grism_obj_list, x, lowlim,
                   highlim, mean_value, bkg_ref, sci_mean, bkg_mean, result,
                   callvars>>

MaskSpec == MaskInit /\ [][CallMaskFromSourceCat]_vars

(***************************************************************************)
(* robust_mean                                                             *)
(*                                                                         *)
(* A mean is a fraction num / den; the mean of no value is NaN.            *)
(***************************************************************************)
MeanNaN == [num |-> NaN, den |-> 1]

\* x[~nan_mask]
Cleaned(xs) == SelectSeq(xs, LAMBDA v : ~isnan(v))

\* the k-th smallest (k from 1) of the values of s: s sorted, at index k - 1
Smallest(s, k) ==
    CHOOSE v \in {s[j] : j \in DOMAIN s} :
        /\ Cardinality({j \in DOMAIN s : s[j] < v}) < k
        /\ k <= Cardinality({j \in DOMAIN s : s[j] <= v})

\* a plausible slip: the lower of the two nearest ranks, not interpolated
Lerp100_lower(a, b, t) == 100 * a

\* 100 * (a + (b - a) * t / 100)
Lerp100(a, b, t) == 100 * a + (b - a) * t

\* 100 * np.percentile(s, q) for a non-empty s: the virtual index in the
\* sorted values is (n - 1) * q / 100 = pos100 / 100, and the percentile is
\* interpolated linearly between the two ranks around it.
AtVirtualIndex(s, pos100) ==
    Lerp100(Smallest(s, pos100 \div 100 + 1),
            Smallest(s, Min(pos100 \div 100 + 2, Len(s))),
            pos100 % 100)

Percentile100(s, q) == AtVirtualIndex(s, (Len(s) - 1) * q)

\* the sum of s[lo .. hi], by halves
RECURSIVE SumBetween(_, _, _)
SumBetween(s, lo, hi) ==
    IF lo > hi THEN 0
    ELSE IF lo = hi THEN s[lo]
    ELSE SumBetween(s, lo, (lo + hi) \div 2)
           + SumBetween(s, (lo + hi) \div 2 + 1, hi)

\* np.mean(a, dtype=float)
np_mean(a) ==
    IF a = <<>> THEN MeanNaN
    ELSE [num |-> SumBetween(a, 1, Len(a)), den |-> Len(a)]

\* cleaned_x[mask], with limits100 = 100 * limits
Within(cleaned_x, limit0, limit1) ==
    SelectSeq(cleaned_x, LAMBDA v : 100 * v >= limit0 /\ 100 * v <= limit1)

\* robust_mean of values of which one at least is not NaN
MeanOfCleaned(cleaned_x, lo, hi) ==
    np_mean(Within(cleaned_x, Percentile100(cleaned_x, lo),
                   Percentile100(cleaned_x, hi)))

\* robust_mean(x, lowlim, highlim).  With no value left after the NaNs are
\* dropped, np.percentile has nothing to interpolate: it raises IndexError
\* or gives NaN limits (and the mean of no value is NaN), by numpy version;
\* this is the NaN outcome, RobustMeanRaises the other.
robust_mean(xs, lo, hi) ==
    IF Cleaned(xs) = <<>> THEN MeanNaN
    ELSE MeanOfCleaned(Cleaned(xs), lo, hi)

\* The inputs of robust_mean: every sequence of up to MaxLen values, and
\* the integers 0..99 in several orders.
MaxLen == 4
RobustValues == {NaN, -20, 0, 10, 40}
RobustLimits == {<<25, 75>>, <<0, 100>>, <<10, 90>>}
Shuffled0To99 ==
    {[k \in 1 .. 100 |-> (a * (k - 1) + b) % 100] :
        a \in {1, 99, 3, 37}, b \in {0, 7, 50}}

RobustInit ==
    /\ op = "robust_init"
    /\ NoCall
    /\ im_array = <<>> /\ bkg_array = <<>> /\ ovl = <<>> /\ subset = <<>>
    /\ input_model = <<>> /\ bkg_list = <<>> /\ sigma = 0 /\ maxiters = 0
    /\ i = 0 /\ cdata = <<>> /\ cerr = <<>> /\ accum_dq_arr = <<>>
    /\ avg_bkg = <<>>
    /\ grism_obj_list = <<>> /\ bkg_mask = <<>> /\ mean_value = <<>>
    /\ bkg_ref = <<>> /\ sci_mean = <<>> /\ bkg_mean = <<>> /\ result = <<>>
    /\ \/ /\ \E n \in 0 .. MaxLen : x \in [1 .. n -> RobustValues]
          /\ \E lims \in RobustLimits : lowlim = lims[1] /\ highlim = lims[2]
       \/ /\ x \in Shuffled0To99
          /\ lowlim = 25 /\ highlim = 75

CallRobustMean ==
    /\ op = "robust_init"
    /\ op' = "robust_mean"
    /\ mean_value' = robust_mean(x, lowlim, highlim)
    /\ UNCHANGED <<im_array, geomvars, avgvars, grism_obj_list, bkg_mask, x,
                   lowlim, highlim, bkg_ref, sci_mean, bkg_mean, result,
                   callvars>>

RobustMeanRaises ==
    /\ op = "robust_init"
    /\ Cleaned(x) = <<>>
    /\ op' = "robust_mean"
    /\ mean_value' = Raise("IndexError")
    /\ UNCHANGED <<im_array, geomvars, avgvars, grism_obj_list, bkg_mask, x,
                   lowlim, highlim, bkg_ref, sci_mean, bkg_mean, result,
                   callvars>>

RobustNext == CallRobustMean \/ RobustMeanRaises

RobustSpec == RobustInit /\ [][RobustNext]_vars

(***************************************************************************)
(* sufficient_background_pixels, no_NaN, subtract_wfss_bkg                 *)
(***************************************************************************)
\* pixel['DO_NOT_USE'], and the default of min_pixels
DO_NOT_USE == 1
min_pixels == 100

\* a ^ b and a & b on unsigned integers
RECURSIVE bitwise_xor(_, _)
bitwise_xor(a, b) ==
    IF a = 0 THEN b
    ELSE IF b = 0 THEN a
    ELSE (IF a % 2 # b % 2 THEN 1 ELSE 0) + 2 * bitwise_xor(a \div 2, b \div 2)

RECURSIVE bitwise_and(_, _)
bitwise_and(a, b) ==
    IF a = 0 \/ b = 0 THEN 0
    ELSE (IF a % 2 = 1 /\ b % 2 = 1 THEN 1 ELSE 0)
         + 2 * bitwise_and(a \div 2, b \div 2)

\* the index of the k-th pixel (k from 1) of a 2D array, row by row
Unravel(shape, k) == <<(k - 1) \div shape[2], (k - 1) % shape[2]>>

\* a[mask] for a boolean mask of a's shape: the values where the mask is
\* True, row by row
Picked(a, kept) == [k \in 1 .. Len(kept) |-> a.at[kept[k]]]

getitem_mask(a, mask) ==
    Picked(a, SelectSeq([k \in 1 .. a.shape[1] * a.shape[2] |-> Unravel(a.shape, k)],
                        LAMBDA p : mask.at[p]))

\* np.count_nonzero
count_nonzero(s) == Cardinality({k \in DOMAIN s : s[k] # 0})

FlagFlipped(dq) ==
    [k \in DOMAIN dq |-> bitwise_and(bitwise_xor(dq[k], DO_NOT_USE), DO_NOT_USE)]

\* a plausible slip: as many good pixels as min_pixels are enough
sufficient_background_pixels_at_least(dq_array, mask, least) ==
    count_nonzero(FlagFlipped(getitem_mask(dq_array, mask))) >= least

sufficient_background_pixels(dq_array, mask, least) ==
    count_nonzero(FlagFlipped(getitem_mask(dq_array, mask))) > least

\* no_NaN(model, fill_value): the model itself without a NaN in its data,
\* else a copy with the NaNs replaced
HasNaN(a) == \E p \in DOMAIN a.at : isnan(a.at[p])

Filled(a, fill_value) ==
    [shape |-> a.shape,
     at |-> [p \in DOMAIN a.at |-> IF isnan(a.at[p]) THEN fill_value ELSE a.at[p]]]

no_NaN(model, fill_value) ==
    IF ~HasNaN(model.data) THEN model
    ELSE [model EXCEPT !.data = Filled(model.data, fill_value)]

hasattr(meta, name) == name \in meta

\* lines 325-332: the mask of the catalog's sources, or all True
BackgroundMask(model, objs) ==
    IF hasattr(model.meta, "source_catalog")
    THEN mask_from_source_cat(model.data.shape, objs)
    ELSE np_full(model.data.shape, TRUE)

\* a plausible slip: the gate applied without a catalog too
Insufficient_any(model, mask) ==
    ~sufficient_background_pixels(model.dq, mask, min_pixels)

\* lines 325-330: with a catalog, too few background pixels
Insufficient(model, mask) ==
    /\ hasattr(model.meta, "source_catalog")
    /\ ~sufficient_background_pixels(model.dq, mask, min_pixels)

\* A value of the result's data: a fraction num / den, or NaN.
Exactly(v) == [num |-> v, den |-> 1]

\* a - (sm / bm) * b
Scaled(a, b, sm, bm) ==
    IF isnan(a) \/ isnan(sm.num) \/ isnan(bm.num) THEN Exactly(NaN)
    ELSE [num |-> a * sm.den * bm.num - sm.num * bm.den * b,
          den |-> sm.den * bm.num]

\* bkg_mean != 0. (NaN is not 0.)
NonZero(mean) == mean.num # 0

\* a plausible slip: the reference scaled and subtracted whatever its mean
ResultData_unguarded(data, ref, sm, bm) ==
    [shape |-> data.shape,
     at |-> [p \in DOMAIN data.at |-> Scaled(data.at[p], ref.at[p], sm, bm)]]

\* lines 348-354: result.data, the target's data less the scaled reference,
\* or the target's data when the reference's mean is 0
ResultData(data, ref, sm, bm) ==
    [shape |-> data.shape,
     at |-> [p \in DOMAIN data.at |->
               IF NonZero(bm) THEN Scaled(data.at[p], ref.at[p], sm, bm)
               ELSE Exactly(data.at[p])]]

\* lines 348-359, for the reference after no_NaN
Result(model, ref, sm, bm) ==
    [data |-> ResultData(model.data, ref.data, sm, bm),
     dq |-> ArrayOr(model.dq, ref.dq)]

\* The targets and references subtract_wfss_bkg is called with: a small
\* frame and one of more than min_pixels pixels, whose values follow the
\* number of the pixel, counted row by row from 0.
WideFrame == <<8, 14>>

Ravel(shape, p) == p[1] * shape[2] + p[2]

PixelNumbers(shape) == 0 .. shape[1] * shape[2] - 1

\* the array whose pixel number k holds value[k]
Patterned(shape, value) ==
    [shape |-> shape, at |-> [p \in Indices(shape) |-> value[Ravel(shape, p)]]]

TargetData(shape) ==
    {Patterned(shape, [k \in PixelNumbers(shape) |-> 24]),
     Patterned(shape, [k \in PixelNumbers(shape) |-> 12 * (k % 5)]),
     Patterned(shape, [k \in PixelNumbers(shape) |->
                          IF k % 7 = 3 THEN NaN ELSE 12 * (k % 3)]),
     Patterned(shape, [k \in PixelNumbers(shape) |-> NaN])}

TargetDq(shape) ==
    {Patterned(shape, [k \in PixelNumbers(shape) |-> 0]),
     Patterned(shape, [k \in PixelNumbers(shape) |->
                          IF k % 20 = 0 THEN DO_NOT_USE + 2 ELSE 8 * (k % 2)]),
     Patterned(shape, [k \in PixelNumbers(shape) |-> DO_NOT_USE])}

ReferenceData(shape) ==
    {Patterned(shape, [k \in PixelNumbers(shape) |-> 0]),
     Patterned(shape, [k \in PixelNumbers(shape) |-> NaN]),
     Patterned(shape, [k \in PixelNumbers(shape) |-> 12 * ((k % 3) - 1)]),
     Patterned(shape, [k \in PixelNumbers(shape) |-> 6 * (1 + (k % 4))]),
     Patterned(shape, [k \in PixelNumbers(shape) |->
                          IF k % 5 = 0 THEN NaN ELSE 6 * (1 + (k % 4))])}

ReferenceDq(shape) ==
    {Patterned(shape, [k \in PixelNumbers(shape) |-> 2 * (k % 3)]),
     Patterned(shape, [k \in PixelNumbers(shape) |-> 4])}

\* what create_grism_bbox finds: nothing, a box at the corner, a box
\* across the upper edge, the whole frame
WfssCatalogs ==
    {<<>>,
     <<GrismObject(<<BoundingBox(0, 0, 2, 17)>>)>>,
     <<GrismObject(<<BoundingBox(-15, 5, 10, 20)>>)>>,
     <<GrismObject(<<BoundingBox(0, 1000, 0, 1000)>>)>>}

WfssInit ==
    /\ op = "wfss_init"
    /\ NoCall
    /\ im_array = <<>> /\ bkg_array = <<>> /\ ovl = <<>> /\ subset = <<>>
    /\ bkg_list = <<>> /\ sigma = 0 /\ maxiters = 0
    /\ i = 0 /\ cdata = <<>> /\ cerr = <<>> /\ accum_dq_arr = <<>>
    /\ avg_bkg = <<>>
    /\ bkg_mask = <<>> /\ x = <<>> /\ mean_value = <<>>
    /\ sci_mean = <<>> /\ bkg_mean = <<>> /\ result = <<>>
    /\ lowlim = 25 /\ highlim = 75
    /\ \E shape \in {SmallFrame, WideFrame} :
          /\ \E data \in TargetData(shape), dq \in TargetDq(shape) :
                \/ /\ input_model = [data |-> data, dq |-> dq, meta |-> {}]
                   /\ grism_obj_list = <<>>
                \/ /\ input_model = [data |-> data, dq |-> dq,
                                     meta |-> {"source_catalog"}]
                   /\ grism_obj_list \in WfssCatalogs
          /\ \E data \in ReferenceData(shape), dq \in ReferenceDq(shape) :
                bkg_ref = [data |-> data, dq |-> dq]

\* lines 312-330: too few background pixels, the step is skipped
SubtractWfssBkgSkips ==
    /\ op = "wfss_init"
    /\ bkg_mask' = BackgroundMask(input_model, grism_obj_list)
    /\ Insufficient(input_model, bkg_mask')
    /\ op' = "wfss_skipped"
    /\ result' = None
    /\ UNCHANGED <<im_array, geomvars, avgvars, grism_obj_list, x, lowlim,
                   highlim, mean_value, bkg_ref, sci_mean, bkg_mean,
                   callvars>>

\* lines 312-339: no value of the target's background pixels is left for
\* np.percentile, which raises (where it does not give NaN)
SubtractWfssBkgRaises ==
    /\ op = "wfss_init"
    /\ bkg_mask' = BackgroundMask(input_model, grism_obj_list)
    /\ ~Insufficient(input_model, bkg_mask')
    /\ Cleaned(getitem_mask(input_model.data, bkg_mask')) = <<>>
    /\ op' = "wfss_raised"
    /\ result' = Raise("IndexError")
    /\ UNCHANGED <<im_array, geomvars, avgvars, grism_obj_list, x, lowlim,
                   highlim, mean_value, bkg_ref, sci_mean, bkg_mean,
                   callvars>>

\* lines 312-359 up to the test of bkg_mean
Means ==
    /\ op = "wfss_init"
    /\ bkg_mask' = BackgroundMask(input_model, grism_obj_list)
    /\ ~Insufficient(input_model, bkg_mask')
    /\ sci_mean' = robust_mean(getitem_mask(input_model.data, bkg_mask'),
                               lowlim, highlim)
    /\ bkg_mean' = robust_mean(getitem_mask(no_NaN(bkg_ref, 0).data, bkg_mask'),
                               lowlim, highlim)

\* the reference scaled and subtracted
SubtractWfssBkg ==
    /\ Means
    /\ NonZero(bkg_mean')
    /\ op' = "wfss_returned"
    /\ result' = Result(input_model, no_NaN(bkg_ref, 0), sci_mean', bkg_mean')
    /\ UNCHANGED <<im_array, geomvars, avgvars, grism_obj_list, x, lowlim,
                   highlim, mean_value, bkg_ref, callvars>>

\* the reference of mean 0: nothing subtracted
SubtractWfssBkgZeroMean ==
    /\ Means
    /\ ~NonZero(bkg_mean')
    /\ op' = "wfss_returned"
    /\ result' = Result(input_model, no_NaN(bkg_ref, 0), sci_mean', bkg_mean')
    /\ UNCHANGED <<im_array, geomvars, avgvars, grism_obj_list, x, lowlim,
                   highlim, mean_value, bkg_ref, callvars>>

WfssNext ==
    \/ SubtractWfssBkgSkips
    \/ SubtractWfssBkgRaises
    \/ SubtractWfssBkg
    \/ SubtractWfssBkgZeroMean

WfssSpec == WfssInit /\ [][WfssNext]_vars

(***************************************************************************)
(* Calls of one function on its own                                        *)
(***************************************************************************)
\* nothing else of the module is running
OnlyCall ==
    /\ im_array = <<>> /\ bkg_array = <<>> /\ ovl = <<>> /\ subset = <<>>
    /\ input_model = <<>> /\ bkg_list = <<>> /\ sigma = 0 /\ maxiters = 0
    /\ i = 0 /\ cdata = <<>> /\ cerr = <<>> /\ accum_dq_arr = <<>>
    /\ avg_bkg = <<>>
    /\ NoWfss

\* The arguments of sufficient_background_pixels: every dq and mask of a
\* frame of one row with every min_pixels up to its size, and a frame of
\* 160 pixels with the default min_pixels.
GateFrame == <<10, 16>>

\* the masks that select the first n pixels, row by row
GateMasks ==
    {Patterned(GateFrame, [k \in PixelNumbers(GateFrame) |-> k < n]) :
        n \in {50, 100, 101, 150, 160}}

GateDq ==
    {Patterned(GateFrame, [k \in PixelNumbers(GateFrame) |-> 0]),
     Patterned(GateFrame, [k \in PixelNumbers(GateFrame) |-> DO_NOT_USE]),
     Patterned(GateFrame, [k \in PixelNumbers(GateFrame) |-> 2 + 4 * (k % 2)]),
     Patterned(GateFrame, [k \in PixelNumbers(GateFrame) |->
                              IF k < 50 THEN DO_NOT_USE + 4 ELSE 2 * (k % 3)]),
     Patterned(GateFrame, [k \in PixelNumbers(GateFrame) |->
                              IF k % 2 = 0 THEN 3 ELSE 4])}

GateInit ==
    /\ op = "gate_init"
    /\ OnlyCall
    /\ heap = <<>> /\ returned = <<>>
    /\ \/ \E dq \in [Indices(<<1, MaxX>>) -> 0 .. 3],
             mask \in [Indices(<<1, MaxX>>) -> BOOLEAN],
             least \in 0 .. MaxX :
             passed = [dq_array |-> [shape |-> <<1, MaxX>>, at |-> dq],
                       bkg_mask |-> [shape |-> <<1, MaxX>>, at |-> mask],
                       min_pixels |-> least]
       \/ \E dq \in GateDq, mask \in GateMasks :
             passed = [dq_array |-> dq, bkg_mask |-> mask,
                       min_pixels |-> min_pixels]

CallSufficientBackgroundPixels ==
    /\ op = "gate_init"
    /\ op' = "sufficient_background_pixels"
    /\ returned' = sufficient_background_pixels(passed.dq_array, passed.bkg_mask,
                                                passed.min_pixels)
    /\ UNCHANGED <<im_array, geomvars, avgvars, wfssvars, heap, passed>>

GateSpec == GateInit /\ [][CallSufficientBackgroundPixels]_vars

(***************************************************************************)
(* no_NaN on model objects.  heap holds the objects that exist, each at    *)
(* its reference: an array, or a model whose data and dq are references    *)
(* to arrays.                                                              *)
(***************************************************************************)
\* a plausible slip: a copy that shares the arrays of the model
model_copy_shallow(h, ref) == Append(h, h[ref])

\* model.copy(): the heap with a deep copy of the model at ref, which is
\* its last object
model_copy(h, ref) ==
    h \o <<h[h[ref].data], h[h[ref].dq],
           [data |-> Len(h) + 1, dq |-> Len(h) + 2]>>

\* temp.data[mask] = fill_value for the model temp, the last of the heap;
\* returns the heap and temp
FillLast(h, fill_value) ==
    [heap |-> [h EXCEPT ![h[Len(h)].data] = Filled(@, fill_value)],
     returned |-> Len(h)]

\* no_NaN(model, fill_value) for the model at ref
no_NaN_at(h, ref, fill_value) ==
    IF ~HasNaN(h[h[ref].data]) THEN [heap |-> h, returned |-> ref]
    ELSE FillLast(model_copy(h, ref), fill_value)

NoNaNInit ==
    /\ op = "no_NaN_init"
    /\ OnlyCall
    /\ returned = <<>>
    /\ \E data \in [Indices(<<1, MaxX>>) -> {NaN, 0, 12, -6}], fill \in {0, 7} :
          /\ heap = <<[shape |-> <<1, MaxX>>, at |-> data],
                      Patterned(<<1, MaxX>>,
                                [k \in PixelNumbers(<<1, MaxX>>) |-> k % 4]),
                      [data |-> 1, dq |-> 2]>>
          /\ passed = [model |-> 3, fill_value |-> fill]

CallNoNaN ==
    /\ op = "no_NaN_init"
    /\ op' = "no_NaN"
    /\ heap' = no_NaN_at(heap, passed.model, passed.fill_value).heap
    /\ returned' = no_NaN_at(heap, passed.model, passed.fill_value).returned
    /\ UNCHANGED <<im_array, geomvars, avgvars, wfssvars, passed>>

NoNaNSpec == NoNaNInit /\ [][CallNoNaN]_vars

(***************************************************************************)
(* ImageSubsetArray(model) on its own: the exposures with and without      *)
(* subarray metadata, among them the full frames, whose arrays are held    *)
(* by their shape alone.                                                   *)
(***************************************************************************)
InitShapes ==
    {<<1024, 1032>>, <<1032, 1024>>, <<2048, 2048>>, <<MaxY, MaxX>>,
     <<MaxInts, 1024, 1032>>, <<MaxInts, 2048, 2048>>, <<MaxInts, 2048, 1032>>}

InitModels ==
    {[xstart |-> xs, ystart |-> ys, xsize |-> xz, ysize |-> yz,
      instrument |-> name,
      data |-> [shape |-> shape], err |-> [shape |-> shape],
      dq |-> [shape |-> shape]] :
        xs \in {None, 1, 2}, ys \in {None, 1, 3},
        xz \in {None, MaxX, 1032, 2048}, yz \in {None, MaxY, 1024, 2048},
        name \in {"MIRI", "miri", "NIRCAM", "nircam", "NIRISS"},
        shape \in InitShapes}

ConstructInit ==
    /\ op = "new_init"
    /\ OnlyCall
    /\ heap = <<>> /\ returned = <<>>
    /\ passed \in InitModels

CallImageSubsetArray ==
    /\ op = "new_init"
    /\ op' = "ImageSubsetArray"
    /\ returned' = ImageSubsetArray(passed)
    /\ UNCHANGED <<im_array, geomvars, avgvars, wfssvars, heap, passed>>

ConstructSpec == ConstructInit /\ [][CallImageSubsetArray]_vars

(***************************************************************************)
(* Properties of the geometry                                              *)
(***************************************************************************)
\* the detector pixel (row, column) that index p of an array in g's frame shows
Row(g, p) == p[Len(p) - 1] + g.jmin
Col(g, p) == p[Len(p)] + g.imin

\* index p of self's frame, moved to other's frame
InOther(self, other, p) ==
    [k \in 1 .. Len(p) |->
        IF k = Len(p) THEN Col(self, p) - other.imin
        ELSE IF k = Len(p) - 1 THEN Row(self, p) - other.jmin
             ELSE p[k]]

InIntersection(self, other, p) ==
    /\ Max(self.jmin, other.jmin) <= Row(self, p)
    /\ Row(self, p) < Min(self.jmax, other.jmax)
    /\ Max(self.imin, other.imin) <= Col(self, p)
    /\ Col(self, p) < Min(self.imax, other.imax)

SameBounds(self, other) ==
    /\ self.imin = other.imin /\ self.imax = other.imax
    /\ self.jmin = other.jmin /\ self.jmax = other.jmax

Disjoint(self, other) ==
    \/ self.imax <= other.imin \/ other.imax <= self.imin
    \/ self.jmax <= other.jmin \/ other.jmax <= self.jmin

\* the two rectangles have a pixel in common
SharePixel(self, other) ==
    \E row \in 0 .. MaxY, col \in 0 .. MaxX :
        /\ self.jmin <= row /\ row < self.jmax
        /\ self.imin <= col /\ col < self.imax
        /\ other.jmin <= row /\ row < other.jmax
        /\ other.imin <= col /\ col < other.imax

Called == op = "get_subset_array" /\ im_array.im_dim = bkg_array.im_dim

\* C1: get_subset_array puts other's values in self's pixel frame: inside
\* the intersection the output at a detector pixel is other's data, err
\* and dq at that detector pixel, and outside it is NaN, NaN and 0
\* (geometries of the same dimensionality).
C1_PlacedInSelfFrame ==
    Called =>
        /\ ~IsRaised(subset)
        /\ \A p \in Indices(subset.data.shape) :
              IF InIntersection(im_array, bkg_array, p)
              THEN /\ subset.data.at[p] =
                        bkg_array.data.at[InOther(im_array, bkg_array, p)]
                   /\ subset.err.at[p] =
                        bkg_array.err.at[InOther(im_array, bkg_array, p)]
                   /\ subset.dq.at[p] =
                        bkg_array.dq.at[InOther(im_array, bkg_array, p)]
              ELSE /\ subset.data.at[p] = NaN
                   /\ subset.err.at[p] = NaN
                   /\ subset.dq.at[p] = 0

\* C2: with identical bounds and the same dimensionality, get_subset_array
\* returns other's data, err and dq, element for element.
C2_IdenticalBoundsIdentity ==
    (Called /\ SameBounds(im_array, bkg_array)) =>
        /\ ~IsRaised(subset)
        /\ subset.data = bkg_array.data
        /\ subset.err = bkg_array.err
        /\ subset.dq = bkg_array.dq

C2_Witness ==
    /\ Called /\ SameBounds(im_array, bkg_array)
    /\ im_array.im_dim = 3
    /\ im_array.data.shape[1] # bkg_array.data.shape[1]
    /\ Cardinality(Indices(bkg_array.data.shape)) >= 4
    /\ ~IsRaised(subset)
    /\ subset.data = bkg_array.data

\* C3: with disjoint bounds (apart in x, in y or in both) get_subset_array
\* does not raise, and returns arrays of self's extent that are NaN in
\* every pixel of data and err and 0 in every pixel of dq.
C3_DisjointAllNaN ==
    (op = "get_subset_array" /\ Disjoint(im_array, bkg_array)) =>
        /\ ~IsRaised(subset)
        /\ subset.data.shape[Len(subset.data.shape)]
              = im_array.imax - im_array.imin
        /\ subset.data.shape[Len(subset.data.shape) - 1]
              = im_array.jmax - im_array.jmin
        /\ \A p \in Indices(subset.data.shape) :
              /\ subset.data.at[p] = NaN
              /\ subset.err.at[p] = NaN
              /\ subset.dq.at[p] = 0

\* the same for two geometries of one dimensionality, where it holds
DisjointAllNaN_SameDim == Called => C3_DisjointAllNaN

\* C4: overlaps is symmetric.
C4_OverlapsSymmetric ==
    op = "overlaps" => ovl[1] = ovl[2]

C4_Witness ==
    /\ op = "overlaps"
    /\ ovl = <<TRUE, TRUE>>
    /\ im_array.imin < bkg_array.imin
    /\ bkg_array.jmax < im_array.jmax

\* C5: overlaps is true exactly when the two rectangles share a pixel;
\* a degenerate rectangle overlaps nothing.
C5_OverlapsIffSharedPixel ==
    op = "overlaps" => (ovl[1] <=> SharePixel(im_array, bkg_array))

(***************************************************************************)
(* Properties of ImageSubsetArray(model)                                   *)
(***************************************************************************)
MetadataMissing ==
    \/ passed.xstart = None \/ passed.ystart = None
    \/ passed.xsize = None \/ passed.ysize = None

IsMiri == passed.instrument \in {"MIRI", "miri"}

\* the last two axes of the data: rows, columns
TrailingShape ==
    <<passed.data.shape[Len(passed.data.shape) - 1],
      passed.data.shape[Len(passed.data.shape)]>>

\* C14: with any of xstart, ystart, xsize, ysize missing, the construction
\* succeeds only for MIRI data of 1024 rows x 1032 columns and for data of
\* another instrument of 2048 x 2048, and gives the full-frame bounds
\* imin = jmin = 0, imax = xsize, jmax = ysize; in every other case with
\* missing metadata it raises and there is no geometry.  With the four
\* values present the bounds are imin = xstart - 1, imax = imin + xsize,
\* jmin = ystart - 1, jmax = jmin + ysize.
C14_ConstructionDefaults ==
    op = "ImageSubsetArray" =>
        IF MetadataMissing
        THEN IF \/ IsMiri /\ TrailingShape = <<1024, 1032>>
                \/ ~IsMiri /\ TrailingShape = <<2048, 2048>>
             THEN /\ ~IsRaised(returned)
                  /\ returned.imin = 0 /\ returned.jmin = 0
                  /\ returned.imax = TrailingShape[2]
                  /\ returned.jmax = TrailingShape[1]
             ELSE returned = Raise("ValueError")
        ELSE /\ ~IsRaised(returned)
             /\ returned.imin = passed.xstart - 1
             /\ returned.imax = returned.imin + passed.xsize
             /\ returned.jmin = passed.ystart - 1
             /\ returned.jmax = returned.jmin + passed.ysize

\* a MIRI full frame of several integrations whose xstart alone is missing
\* and whose other values are not the full frame's
C14_Witness ==
    /\ op = "ImageSubsetArray"
    /\ passed.instrument = "MIRI"
    /\ passed.xstart = None /\ passed.ystart = 3
    /\ passed.xsize = MaxX /\ passed.ysize = 2048
    /\ passed.data.shape = <<MaxInts, 1024, 1032>>
    /\ returned.imin = 0 /\ returned.imax = 1032
    /\ returned.jmin = 0 /\ returned.jmax = 1024
    /\ returned.im_dim = 3

Construct_MiriAt2048Raises ==
    /\ op = "ImageSubsetArray" /\ MetadataMissing
    /\ passed.instrument = "MIRI" /\ TrailingShape = <<2048, 2048>>
    /\ IsRaised(returned)

Construct_Other1024x1032Raises ==
    /\ op = "ImageSubsetArray" /\ MetadataMissing
    /\ passed.instrument = "NIRCAM" /\ TrailingShape = <<1024, 1032>>
    /\ IsRaised(returned)

Construct_LowerCaseMiri ==
    /\ op = "ImageSubsetArray" /\ MetadataMissing
    /\ passed.instrument = "miri" /\ TrailingShape = <<1024, 1032>>
    /\ ~IsRaised(returned)

(***************************************************************************)
(* Properties of get_subset_array on inconsistent metadata                 *)
(***************************************************************************)
\* the last two axes of g's data are not (jmax - jmin, imax - imin)
Inconsistent(g) ==
    \/ g.data.shape[Len(g.data.shape) - 1] # g.jmax - g.jmin
    \/ g.data.shape[Len(g.data.shape)] # g.imax - g.imin

\* C19: get_subset_array fails with an error whenever the metadata bounds
\* of self or of other are inconsistent with the shape of its arrays (as
\* when other declares a larger xsize or ysize than its data have); it
\* never truncates the cutout silently and returns a partially filled
\* result.
C19_InconsistentBoundsRaise ==
    (Called /\ (Inconsistent(im_array) \/ Inconsistent(bkg_array)))
        => IsRaised(subset)

\* other declares MaxX columns and MaxY rows from (1, 1) and has one
\* column of data, self is the consistent exposure on the same bounds: the
\* result is returned, with other's one column and NaN in the rest
Mismatch_SilentlyTruncated ==
    /\ Called /\ ~IsRaised(subset)
    /\ ~Inconsistent(im_array) /\ Inconsistent(bkg_array)
    /\ im_array.im_dim = 2 /\ bkg_array.im_dim = 2
    /\ im_array.imin = 0 /\ im_array.imax = MaxX
    /\ im_array.jmin = 0 /\ im_array.jmax = MaxY
    /\ bkg_array.imin = 0 /\ bkg_array.imax = MaxX
    /\ bkg_array.jmin = 0 /\ bkg_array.jmax = MaxY
    /\ bkg_array.data.shape = <<MaxY, 1>>
    /\ \A p \in Indices(subset.data.shape) :
          IF p[2] = 0 THEN subset.data.at[p] = bkg_array.data.at[p]
          ELSE isnan(subset.data.at[p])

\* self's arrays are smaller than its bounds and than the cutout: the
\* assignment raises
Mismatch_SelfTooSmallRaises ==
    /\ Called /\ subset = Raise("ValueError")
    /\ Inconsistent(im_array) /\ ~Inconsistent(bkg_array)
    /\ im_array.im_dim = 2 /\ bkg_array.im_dim = 2

(***************************************************************************)
(* Properties of average_background                                        *)
(***************************************************************************)
InAverage == op \in {"avg_loop", "avg_done", "avg_raised"}

Geometry(file) == ImageSubsetArray(datamodels_open(file))

\* file k of the list does not overlap the target
NoOverlapFile(k) == ~overlaps(Geometry(bkg_list[k]), im_array)

\* file k covers the whole target
CoversTarget(k) ==
    /\ bkg_list[k].cols[1] <= input_model.cols[1]
    /\ input_model.cols[2] <= bkg_list[k].cols[2]

\* the list without its k-th file
Without(files, k) == SubSeq(files, 1, k - 1) \o SubSeq(files, k + 1, Len(files))

\* N single-integration files of one data value and one error, each
\* covering the target
IdenticalFiles ==
    \A k \in 1 .. num_bkg :
        /\ bkg_list[k].dim = 2
        /\ bkg_list[k].val.d = bkg_list[1].val.d
        /\ bkg_list[k].val.e = bkg_list[1].val.e
        /\ CoversTarget(k)

\* the result of average_background for identical files of data d and
\* error e: d in every pixel, nothing clipped, the variances summed to
\* N * e^2 and divided by N
IdenticalAverage ==
    \A p \in Indices(image_shape) :
        /\ avg_bkg.data.at[p].num = bkg_list[1].val.d * avg_bkg.data.at[p].den
        /\ avg_bkg.data.at[p].den = num_bkg
        /\ avg_bkg.err.at[p].var
             = num_bkg * bkg_list[1].val.e * bkg_list[1].val.e
        /\ avg_bkg.err.at[p].over = num_bkg
        \* err^2 * N = e^2, with err = sqrt(var) / over
        /\ avg_bkg.err.at[p].var * num_bkg
             = bkg_list[1].val.e * bkg_list[1].val.e
                 * avg_bkg.err.at[p].over * avg_bkg.err.at[p].over

\* C6: N >= 1 single-integration files with the same data d and error e in
\* every pixel, covering the target: average_background returns, and the
\* averaged data is d in every pixel and the averaged error is e / sqrt(N):
\* nothing is clipped, the summed variance is N * e^2 and the denominator
\* is N.
C6_IdenticalFilesAverage ==
    (op \in {"avg_done", "avg_raised"} /\ IdenticalFiles) =>
        (op = "avg_done" /\ IdenticalAverage)

\* the same for a single-integration target, where it holds
IdenticalFilesAverage_2DTarget ==
    (op \in {"avg_done", "avg_raised"} /\ IdenticalFiles
       /\ input_model.dim = 2) =>
        (op = "avg_done" /\ IdenticalAverage)

\* three identical files, wider than the target and starting before it,
\* at the documented sigma, averaged for a single-integration target
IdenticalFilesAverage_Reached ==
    /\ op = "avg_done" /\ IdenticalFiles /\ input_model.dim = 2
    /\ num_bkg = 3 /\ sigma = 3 /\ maxiters = 5
    /\ \E k \in 1 .. num_bkg : bkg_list[k].cols[1] < input_model.cols[1]
    /\ IdenticalAverage

AllNaN(a) == \A p \in DOMAIN a.at : isnan(a.at[p])

\* C7: a file that does not overlap the target never aborts
\* average_background; its slot of the contribution matrix is all NaN in
\* data and variance; it adds no bits to the output dq; and the averaged
\* data, error and dq are those of the same list without that file (when
\* another file remains).
C7_NoOverlapFileIgnored ==
    /\ op = "avg_raised" => overlaps(bkg_array, im_array)
    /\ InAverage =>
          \A k \in 1 .. i :
              NoOverlapFile(k) => AllNaN(cdata[k]) /\ AllNaN(cerr[k])
    /\ op = "avg_done" =>
          /\ (\A k \in 1 .. num_bkg : NoOverlapFile(k))
                => avg_bkg.dq = np_full(image_shape, 0)
          /\ \A k \in 1 .. num_bkg :
                (NoOverlapFile(k) /\ num_bkg > 1)
                   => average_background(Without(bkg_list, k)) = avg_bkg

\* three single-integration files, the second of which does not overlap
\* and differs from the others in its data and in its dq bit: neither shows
\* in the result, and the error is divided by the two remaining files
C7_Witness ==
    /\ op = "avg_done" /\ num_bkg = 3 /\ bkg_dim = 2
    /\ NoOverlapFile(2) /\ ~NoOverlapFile(1) /\ ~NoOverlapFile(3)
    /\ bkg_list[2].val.dq = 2 /\ bkg_list[2].val.d = 48
    /\ bkg_list[1].val.dq = 1 /\ bkg_list[3].val.dq = 1
    /\ \A p \in Indices(image_shape) :
          /\ avg_bkg.dq.at[p] = 1
          /\ avg_bkg.data.at[p] = [num |-> 24, den |-> 2]
          /\ avg_bkg.err.at[p].over = 2

\* the actions and the function average_background agree
AverageAgrees ==
    /\ op = "avg_done" => average_background(bkg_list) = avg_bkg
    /\ op = "avg_raised" => IsRaised(average_background(bkg_list))

\* the positions of the files' contributions the cross-file clip keeps at
\* pixel p
KeptAt(p) == sigma_clip(AlongFiles(cdata, p), sigma, maxiters)

\* an error sqrt(var) / over that is NaN or an infinity
NotFinite(e) == isnan(e.var) \/ e.over = 0

\* C15: at a pixel where every contribution is rejected (every file
\* non-overlapping, for one), the denominator is zero and the returned
\* averaged error there is NaN or Infinity, never a finite value, and
\* average_background does not raise.
C15_AllRejectedErrNotFinite ==
    op = "avg_done" =>
        \A p \in Indices(image_shape) :
            KeptAt(p) = {} => NotFinite(avg_bkg.err.at[p])

\* two files, neither overlapping the target: the error returned is the
\* finite 0 at every pixel, and so is the data
AllRejected_ErrZero ==
    /\ op = "avg_done" /\ num_bkg = 2
    /\ NoOverlapFile(1) /\ NoOverlapFile(2)
    /\ \A p \in Indices(image_shape) :
          /\ KeptAt(p) = {}
          /\ ErrDenominator(num_bkg, num_bkg - Cardinality(KeptAt(p))) = 0
          /\ avg_bkg.err.at[p] = [var |-> 0, over |-> 1]
          /\ avg_bkg.data.at[p] = [num |-> 0, den |-> 1]

\* C16: each background file is handled by its own dimensionality whatever
\* the target's: a 3D file with a 2D target and a 2D file with a 3D target
\* each give a valid H x W contribution, without error.
C16_FileOwnDimensionality ==
    /\ op = "avg_raised" => bkg_array.im_dim = bkg_dim
    /\ InAverage =>
          \A k \in 1 .. i :
              /\ cdata[k].shape = image_shape
              /\ cerr[k].shape = image_shape

\* a 2D file that overlaps a 3D target: get_subset_array raises
Mixed_2DFile3DTarget ==
    /\ op = "avg_raised"
    /\ bkg_dim = 3 /\ bkg_array.im_dim = 2
    /\ subset = Raise("IndexError")

\* a 3D file that overlaps a 2D target
Mixed_3DFile2DTarget ==
    /\ op = "avg_raised"
    /\ bkg_dim = 2 /\ bkg_array.im_dim = 3

Mixed_3DFile2DTarget_Passes ==
    /\ InAverage /\ op # "avg_raised" /\ i > 0
    /\ bkg_dim = 2 /\ bkg_array.im_dim = 3
    /\ overlaps(bkg_array, im_array)

(***************************************************************************)
(* Properties of mask_from_source_cat                                      *)
(***************************************************************************)
\* the 50 x 50 frame and the one object of one order with the bounding
\* box ((10.2, 20.7), (5, 15))
OneBoxOn50x50 ==
    /\ op = "mask_from_source_cat"
    /\ input_model.data.shape = <<50, 50>>
    /\ grism_obj_list = <<GrismObject(<<BoundingBox(102, 207, 50, 150)>>)>>

\* C8 as stated: on the 50 x 50 frame the box ((10.2, 20.7), (5, 15))
\* gives a mask that is False in rows 10..21 and columns 5..16 and True
\* elsewhere.
C8_MaskRows10To21Cols5To16 ==
    OneBoxOn50x50 =>
        \A p \in Indices(bkg_mask.shape) :
            bkg_mask.at[p] = ~(/\ 10 <= p[1] /\ p[1] <= 21
                               /\ 5 <= p[2] /\ p[2] <= 16)

\* C8, amended: the mask is False in rows 10..21 and columns 5..15 (both
\* inclusive) and True elsewhere: ceil(15) + 1 = 16 is the slice limit,
\* which the slice leaves out.
C8_MaskRows10To21Cols5To15 ==
    OneBoxOn50x50 =>
        /\ bkg_mask.shape = <<50, 50>>
        /\ \A p \in Indices(bkg_mask.shape) :
              bkg_mask.at[p] = ~(/\ 10 <= p[1] /\ p[1] <= 21
                                 /\ 5 <= p[2] /\ p[2] <= 15)

C8_Witness ==
    /\ OneBoxOn50x50
    /\ ~bkg_mask.at[<<10, 5>>] /\ ~bkg_mask.at[<<21, 15>>]
    /\ bkg_mask.at[<<21, 16>>] /\ bkg_mask.at[<<22, 15>>]
    /\ bkg_mask.at[<<9, 5>>] /\ bkg_mask.at[<<10, 4>>]
    /\ Cardinality({p \in Indices(bkg_mask.shape) : ~bkg_mask.at[p]}) = 12 * 11

\* the bounding boxes of every order of every object of the catalog
AllBoxes ==
    UNION {{obj.order_bounding[n] : n \in DOMAIN obj.order_bounding} :
              obj \in {grism_obj_list[k] : k \in DOMAIN grism_obj_list}}

\* pixel p is within the box: floor(min) <= index <= ceil(max) on both axes
InBox(box, p) ==
    /\ math_floor(box[1][1]) <= p[1] /\ p[1] <= math_ceil(box[1][2])
    /\ math_floor(box[2][1]) <= p[2] /\ p[2] <= math_ceil(box[2][2])

\* the box lies outside the frame: beyond its last index or before its
\* first on an axis
OutsideFrame(box, shape) ==
    \/ box[1][2] < 0 \/ box[2][2] < 0
    \/ box[1][1] > 10 * (shape[1] - 1) \/ box[2][1] > 10 * (shape[2] - 1)

MaskCalled == op = "mask_from_source_cat"

\* C18: the mask is False at exactly the pixels (r, c) with
\* floor(ymin) <= r <= ceil(ymax) and floor(xmin) <= c <= ceil(xmax) for
\* some box of the catalog and True elsewhere, whatever the order of the
\* boxes; a box entirely outside the frame (xmin and xmax both negative, or
\* both beyond the last column) excludes no pixel; an empty catalog gives
\* the all-True mask.
C18_MaskFalseExactlyInBoxes ==
    MaskCalled =>
        /\ \A p \in Indices(bkg_mask.shape) :
              bkg_mask.at[p] = ~(\E box \in AllBoxes : InBox(box, p))
        /\ (\A box \in AllBoxes : OutsideFrame(box, bkg_mask.shape))
              => bkg_mask = np_full(bkg_mask.shape, TRUE)

\* the upper slice limits ceil(max) + 1 of the box are not negative
LimitsNotNegative(box) ==
    math_ceil(box[1][2]) + 1 >= 0 /\ math_ceil(box[2][2]) + 1 >= 0

\* C18 holds for the catalogs whose boxes have no negative slice limit,
\* those with max > -2 on both axes
Mask_FalseExactlyInBoxes_Limits ==
    (MaskCalled /\ \A box \in AllBoxes : LimitsNotNegative(box)) =>
        \A p \in Indices(bkg_mask.shape) :
            bkg_mask.at[p] = ~(\E box \in AllBoxes : InBox(box, p))

\* the one box ((0.2, 1.7), (-3.0, -2.0)), left of the frame: the slice
\* 0:-1 of the columns excludes all columns but the last in rows 0..2
Mask_BoxLeftOfFrame ==
    /\ MaskCalled
    /\ grism_obj_list = <<GrismObject(<<BoundingBox(2, 17, -30, -20)>>)>>
    /\ \A p \in Indices(bkg_mask.shape) :
          bkg_mask.at[p] = ~(p[1] <= 2 /\ p[2] < bkg_mask.shape[2] - 1)

Mask_EmptyCatalog ==
    (MaskCalled /\ grism_obj_list = <<>>)
        => bkg_mask = np_full(input_model.data.shape, TRUE)

Mask_OrderOfObjects ==
    (MaskCalled /\ Len(grism_obj_list) = 2) =>
        bkg_mask = mask_from_source_cat(input_model.data.shape,
                       <<grism_obj_list[2], grism_obj_list[1]>>)

(***************************************************************************)
(* Properties of robust_mean                                               *)
(***************************************************************************)
\* x in the order perm
Permuted(xs, perm) == [k \in DOMAIN xs |-> xs[perm[k]]]

\* x with a NaN put in after its first k values
WithNaNAt(xs, k) == SubSeq(xs, 1, k) \o <<NaN>> \o SubSeq(xs, k + 1, Len(xs))

IsPermutationOf0To99 == Len(x) = 100 /\ {x[k] : k \in DOMAIN x} = 0 .. 99

RobustMean_Unsorted ==
    /\ op = "robust_mean" /\ Len(x) = MaxLen
    /\ x[1] = 40 /\ x[2] = NaN /\ x[3] = -20 /\ x[4] = 10
    /\ lowlim = 25 /\ highlim = 75
    /\ mean_value = [num |-> 10, den |-> 1]

(***************************************************************************)
(* Properties of subtract_wfss_bkg                                         *)
(***************************************************************************)
\* the value v of the target's data, as a value of the result's data
SameValue(r, v) ==
    IF isnan(v) THEN isnan(r.num) ELSE r.den # 0 /\ r.num = v * r.den

\* the robust mean of the reference's background pixels is exactly 0
ZeroMeanReference == bkg_mean # <<>> /\ bkg_mean.num = 0

\* C10: when the robust mean of the NaN-filled reference over the
\* background mask is exactly 0, subtract_wfss_bkg subtracts nothing: the
\* result's data are the target's data in every pixel, its dq is the
\* bitwise OR of the target's and the reference's dq in every pixel, and
\* nothing is raised.
C10_ZeroMeanPassThrough ==
    /\ (op \in {"wfss_returned", "wfss_raised", "wfss_skipped"}
          /\ ZeroMeanReference) =>
          /\ op = "wfss_returned"
          /\ result.data.shape = input_model.data.shape
          /\ \A p \in Indices(input_model.data.shape) :
                /\ SameValue(result.data.at[p], input_model.data.at[p])
                /\ result.dq.at[p]
                     = bitwise_or(input_model.dq.at[p], bkg_ref.dq.at[p])
    /\ op = "wfss_returned" =>
          bkg_mean = robust_mean(getitem_mask(no_NaN(bkg_ref, 0).data, bkg_mask),
                                 25, 75)

\* a target with a catalog and a box in it, data that differ from pixel to
\* pixel with NaNs among them, and a reference of NaNs only, which no_NaN
\* fills with zeros
C10_Witness ==
    /\ op = "wfss_returned" /\ ZeroMeanReference
    /\ hasattr(input_model.meta, "source_catalog")
    /\ \E p \in Indices(bkg_mask.shape) : ~bkg_mask.at[p]
    /\ \A p \in Indices(bkg_ref.data.shape) : isnan(bkg_ref.data.at[p])
    /\ \E p \in Indices(input_model.data.shape) : isnan(input_model.data.at[p])
    /\ \E p, q \in Indices(input_model.data.shape) :
          /\ ~isnan(input_model.data.at[p]) /\ ~isnan(input_model.data.at[q])
          /\ input_model.data.at[p] # input_model.data.at[q]
    /\ sci_mean.num # 0
    /\ \E p \in Indices(result.dq.shape) :
          /\ result.dq.at[p] # input_model.dq.at[p]
          /\ result.dq.at[p] # bkg_ref.dq.at[p]

\* a reference of values below and above 0 whose robust mean is exactly 0
ZeroMean_Balanced ==
    /\ op = "wfss_returned" /\ ZeroMeanReference
    /\ \E p \in Indices(bkg_ref.data.shape) : bkg_ref.data.at[p] > 0
    /\ \A p \in Indices(result.data.shape) :
          result.data.at[p] = Exactly(input_model.data.at[p])

\* the target has a source catalog whose mask leaves too few good pixels
GateFails ==
    /\ hasattr(input_model.meta, "source_catalog")
    /\ ~sufficient_background_pixels(
           input_model.dq,
           mask_from_source_cat(input_model.data.shape, grism_obj_list),
           min_pixels)

\* a value of the target's data is not NaN, so that its robust mean over
\* the all-True mask is defined
SomeValue == \E p \in DOMAIN input_model.data.at : ~isnan(input_model.data.at[p])

NoCatalog_GateNotApplied ==
    /\ op = "wfss_returned"
    /\ ~hasattr(input_model.meta, "source_catalog")
    /\ \A p \in Indices(input_model.dq.shape) : input_model.dq.at[p] = DO_NOT_USE
    /\ \A p \in Indices(bkg_mask.shape) : bkg_mask.at[p]
    /\ \E p \in Indices(result.data.shape) : result.data.at[p].den # 1

(***************************************************************************)
(* Properties of sufficient_background_pixels                              *)
(***************************************************************************)
\* the pixels the mask selects, and those of them without the DO_NOT_USE bit
SelectedPixels == {p \in Indices(passed.dq_array.shape) : passed.bkg_mask.at[p]}
GoodPixels == {p \in SelectedPixels : passed.dq_array.at[p] % 2 = 0}

\* C11: sufficient_background_pixels is true exactly when the pixels the
\* mask selects whose dq has the DO_NOT_USE bit clear are more than
\* min_pixels, whatever the other bits: false with exactly min_pixels of
\* them, false with 50 selected pixels all flagged and min_pixels 100,
\* true with 150 selected pixels unflagged and min_pixels 100.
C11_SufficientIffMoreThanMin ==
    op = "sufficient_background_pixels" =>
        /\ returned <=> Cardinality(GoodPixels) > passed.min_pixels
        /\ Cardinality(GoodPixels) = passed.min_pixels => ~returned
        /\ (/\ Cardinality(SelectedPixels) = 50 /\ GoodPixels = {}
            /\ passed.min_pixels = 100) => ~returned
        /\ (/\ Cardinality(SelectedPixels) = 150 /\ GoodPixels = SelectedPixels
            /\ passed.min_pixels = 100) => returned

\* exactly min_pixels = 100 good pixels among 150 selected, other bits set
\* on some of the good ones
C11_Witness ==
    /\ op = "sufficient_background_pixels"
    /\ passed.min_pixels = 100
    /\ Cardinality(SelectedPixels) = 150
    /\ Cardinality(GoodPixels) = 100
    /\ \E p \in GoodPixels : passed.dq_array.at[p] # 0
    /\ ~returned

Sufficient_50Flagged ==
    /\ op = "sufficient_background_pixels" /\ passed.min_pixels = 100
    /\ Cardinality(SelectedPixels) = 50 /\ GoodPixels = {} /\ ~returned

Sufficient_150Unflagged ==
    /\ op = "sufficient_background_pixels" /\ passed.min_pixels = 100
    /\ Cardinality(SelectedPixels) = 150 /\ GoodPixels = SelectedPixels
    /\ returned

Sufficient_101Good ==
    /\ op = "sufficient_background_pixels" /\ passed.min_pixels = 100
    /\ Cardinality(GoodPixels) = 101 /\ returned

(***************************************************************************)
(* Properties of no_NaN                                                    *)
(***************************************************************************)
\* the data of the model at ref
DataOf(h, ref) == h[h[ref].data]

\* C12: no_NaN on a model without a NaN in its data returns that very
\* object and copies and changes nothing; on a model with a NaN it returns
\* a new object whose data are the model's with every NaN replaced by
\* fill_value and every other value as it was, and the model's own data
\* still hold their NaNs.
C12_NoNaNIdentityOrCopy ==
    [][(op = "no_NaN_init" /\ op' = "no_NaN") =>
          IF ~HasNaN(DataOf(heap, passed.model))
          THEN /\ returned' = passed.model
               /\ heap' = heap
          ELSE /\ returned' \notin DOMAIN heap
               /\ returned' \in DOMAIN heap'
               /\ \A ref \in DOMAIN heap : heap'[ref] = heap[ref]
               /\ HasNaN(DataOf(heap', passed.model))
               /\ heap'[returned'].data \notin DOMAIN heap
               /\ DataOf(heap', returned').shape
                    = DataOf(heap, passed.model).shape
               /\ \A p \in DOMAIN DataOf(heap, passed.model).at :
                     DataOf(heap', returned').at[p] =
                        IF isnan(DataOf(heap, passed.model).at[p])
                        THEN passed.fill_value
                        ELSE DataOf(heap, passed.model).at[p]]_vars

\* a model with a NaN and another value, filled with a value that is not 0
C12_Witness ==
    /\ op = "no_NaN"
    /\ returned # passed.model
    /\ passed.fill_value = 7
    /\ \E p, q \in DOMAIN DataOf(heap, passed.model).at :
          /\ isnan(DataOf(heap, passed.model).at[p])
          /\ DataOf(heap, returned).at[p] = 7
          /\ DataOf(heap, passed.model).at[q] = 12
          /\ DataOf(heap, returned).at[q] = 12

\* a model without a NaN, returned as it is
NoNaN_SameObject ==
    /\ op = "no_NaN"
    /\ returned = passed.model
    /\ Len(heap) = 3

\* no_NaN on objects and no_NaN on values agree
NoNaNAgrees ==
    op = "no_NaN" =>
        DataOf(heap, returned)
          = no_NaN([data |-> DataOf(heap, passed.model)], passed.fill_value).data

(***************************************************************************)
(* Properties of the loop of average_background                            *)
(***************************************************************************)
\* the dq of the exposure of geometry g at pixel p of the target's frame,
\* OR-ed over the integrations of g: 0 where g has no pixel
DqOnTarget(g, p) ==
    IF ~InIntersection(im_array, g, p) THEN 0
    ELSE IF g.im_dim = 2 THEN g.dq.at[InOther(im_array, g, p)]
         ELSE OrOver([n \in 1 .. g.dq.shape[1] |->
                         g.dq.at[<<n - 1>> \o InOther(im_array, g, p)]], 0)

\* the OR of DqOnTarget over the files that overlap the target
RemappedDq(files, p) ==
    OrOver([k \in 1 .. Len(files) |->
               IF overlaps(Geometry(files[k]), im_array)
               THEN DqOnTarget(Geometry(files[k]), p) ELSE 0], 0)

\* the loop of average_background over a list of files
LoopOver(files) ==
    Loop([cdata |-> <<>>, cerr |-> <<>>,
          accum_dq_arr |-> np_full(image_shape, 0),
          dq |-> np_full(image_shape, 0)], files)

\* the contributions of a list of files, whatever their slots
Contributions(files) ==
    IF IsRaised(LoopOver(files)) THEN LoopOver(files)
    ELSE {<<LoopOver(files).cdata[k], LoopOver(files).cerr[k]>> :
             k \in 1 .. Len(files)}

Reorderings == Permutations(1 .. num_bkg)

\* an iteration writes its own slot and no other
WritesOwnSlot ==
    (op = "avg_loop" /\ op' = "avg_loop") =>
        /\ i' = i + 1
        /\ \A k \in (1 .. num_bkg) \ {i'} :
              cdata'[k] = cdata[k] /\ cerr'[k] = cerr[k]

\* the clip across the files runs when every slot is written
ClipIsBarrier == op' = "avg_done" => (op = "avg_loop" /\ i = num_bkg)

\* the result for the list in any other order
SameInAnyOrder ==
    \A perm \in Reorderings :
        /\ Contributions(Permuted(bkg_list, perm)) = Contributions(bkg_list)
        /\ IsRaised(LoopOver(bkg_list))
              = IsRaised(LoopOver(Permuted(bkg_list, perm)))
        /\ ~IsRaised(LoopOver(bkg_list)) =>
              LoopOver(Permuted(bkg_list, perm)).dq = LoopOver(bkg_list).dq

DqIsRemappedOr ==
    \A p \in Indices(image_shape) :
        avg_bkg.dq.at[p] = RemappedDq(bkg_list, p)

\* C17: the loop over the background files is order-independent:
\* iteration i writes only slot i of the contribution matrix; the output
\* dq is the bitwise OR, over every overlapping file and every integration,
\* of the file's dq remapped onto the target's frame; any permutation of
\* the list gives the same dq and the same set of contributions; and the
\* clip across the files runs only after every slot is written.
C17_LoopOrderIndependent ==
    /\ [](op = "avg_done" => (DqIsRemappedOr /\ SameInAnyOrder))
    /\ [][WritesOwnSlot /\ ClipIsBarrier]_vars

\* the parts of C17 that hold: the slots, the barrier and the order
LoopOrder_SlotsAndBarrier == [][WritesOwnSlot /\ ClipIsBarrier]_vars

LoopOrder_AnyOrder == op = "avg_done" => SameInAnyOrder

\* the dq is the remapped OR when no overlapping file starts inside the
\* target and all exposures have the target's dimensionality
LoopOrder_DqFromCorner ==
    (/\ op = "avg_done"
     /\ \A k \in 1 .. num_bkg :
           /\ bkg_list[k].dim = bkg_dim
           /\ bkg_list[k].cols[1] <= input_model.cols[1]) => DqIsRemappedOr

\* a file that starts one column inside the target: its dq is in the
\* target's first column, which the file does not cover, and not in the
\* second, which it does
LoopOrder_DqMisplaced ==
    /\ op = "avg_done" /\ num_bkg = 1 /\ bkg_dim = 2
    /\ input_model.cols = <<0, 2>> /\ bkg_list[1].cols = <<1, 2>>
    /\ bkg_list[1].val.dq = 1
    /\ avg_bkg.dq.at[<<0, 0>>] = 1 /\ avg_bkg.dq.at[<<0, 1>>] = 0
    /\ RemappedDq(bkg_list, <<0, 0>>) = 0
    /\ RemappedDq(bkg_list, <<0, 1>>) = 1

====
